---- MODULE Spec2Model ----
(***************************************************************************)
(* AQO: the query classifier (aqo_planner, preprocessing.c) and the        *)
(* cardinality estimation hooks (cardinality_hooks.c), as a state machine. *)
(*                                                                         *)
(* Shared between backends: the knowledge base (aqo_queries,               *)
(* aqo_query_texts) and the lock table.  Private to a backend: the global  *)
(* query_context, cur_classes, the deactivated-queries table, the          *)
(* selectivity cache, the staging fields of the parameterized hooks and    *)
(* the relation nodes of the statement being planned.                      *)
(***************************************************************************)
EXTENDS Integers, Sequences, FiniteSets, TLC

(* ------------------------------ bounds --------------------------------- *)
NumBackends == 2
NumHashes == 2
MaxNesting == 1
MaxHookCalls == 2

Backends == 1..NumBackends
QueryHashes == 1..NumHashes

(* values of the GUC aqo.profile_classes: profiling off, or one class kept *)
ProfileClasses == {0, 1}

(* aqo_mode values accepted by the GUC *)
Modes == {"intelligent", "forced", "controlled", "learn", "frozen", "disabled"}

(* a value of aqo_mode outside the enumeration: both switches of          *)
(* aqo_planner end in elog(ERROR) for it                                   *)
UnrecognizedMode == "unrecognized"

(* the modes in which a new class is added to the knowledge base *)
RegisteringModes == {"intelligent", "learn"}

(* ------------------------------ state ---------------------------------- *)
VARIABLES
  aqo_queries,          \* knowledge base: sequence of class rows
  aqo_query_texts,      \* knowledge base: sequence of query hashes with a stored text
  locks,                \* lock table: query_hash -> holder backend (0: free)
  pc,                   \* per backend: position in aqo_planner / planning
  query_context,        \* per backend: the global query_context
  cur_classes,          \* per backend: List *cur_classes
  deactivated_queries,  \* per backend: deny-list
  selectivity_cache,    \* per backend: selectivity cache entries
  loc,                  \* per backend: locals of the running aqo_planner call
  cls,                  \* per backend: observation of the last aqo_planner call
  rels,                 \* per backend: RelOptInfo nodes of the statement being planned
  staged,               \* per backend: the globals predicted_ppi_rows, fss_ppi_hash
  ppi,                  \* per backend: the ParamPathInfo being built
  last,                 \* per backend: observation of the last hook call
  ncalls,               \* per backend: hook calls made in this planning pass
  controlled_new,       \* per backend: classes found new in controlled mode (history)
  outer,                \* per backend: the aqo_planner calls suspended in call_default_planner
  resumed               \* per backend: observation of the last return into a suspended call

hookvars == <<rels, staged, ppi, last, ncalls>>

sessionvars == <<cur_classes, deactivated_queries, controlled_new>>

nestvars == <<outer, resumed>>

(* --------------------------- knowledge base ---------------------------- *)
Row(h, f, l, u, a) ==
  [query_hash |-> h, learn_aqo |-> l, use_aqo |-> u, fspace_hash |-> f, auto_tuning |-> a]

RowsOf(kb, h) == {i \in 1..Len(kb) : kb[i].query_hash = h}

(* find_query: is a row stored for the hash, and which (the first one) *)
find_query_stored(kb, h) == RowsOf(kb, h) # {}

find_query_row(kb, h) == kb[CHOOSE i \in RowsOf(kb, h) : \A j \in RowsOf(kb, h) : i <= j]

(* update_query: find the class row, add it when it is not there *)
update_query(kb, found, h, f, l, u, a) ==
  IF found THEN kb ELSE Append(kb, Row(h, f, l, u, a))

(* add_query_text: the text row of a class is added once *)
add_query_text(texts, h) ==
  IF \E i \in 1..Len(texts) : texts[i] = h THEN texts ELSE Append(texts, h)

(* deactivated-queries table of the backend *)
query_is_deactivated(tab, h) == h \in tab

add_deactivated_query(tab, h) == tab \cup {h}

(* ---------------------------- query_context ---------------------------- *)
InitContext ==
  [query_hash |-> 0, fspace_hash |-> 0, learn_aqo |-> FALSE, use_aqo |-> FALSE,
   auto_tuning |-> FALSE, collect_stat |-> FALSE, adding_query |-> FALSE,
   explain_only |-> FALSE, planning_time |-> 0]

disable_aqo_for_query_KeepCollect(ctx) ==
  [ctx EXCEPT !.learn_aqo = FALSE, !.use_aqo = FALSE, !.auto_tuning = FALSE,
              !.adding_query = FALSE, !.explain_only = FALSE, !.planning_time = -1]

disable_aqo_for_query(ctx) ==
  [ctx EXCEPT !.learn_aqo = FALSE, !.use_aqo = FALSE, !.auto_tuning = FALSE,
              !.collect_stat = FALSE, !.adding_query = FALSE, !.explain_only = FALSE,
              !.planning_time = -1]

IsQueryDisabled(ctx) ==
  /\ ~ctx.learn_aqo /\ ~ctx.use_aqo /\ ~ctx.auto_tuning /\ ~ctx.collect_stat
  /\ ~ctx.adding_query /\ ~ctx.explain_only
  /\ ctx.planning_time < 0

(* the first test of aqo_planner; env stands for the conditions on the     *)
(* statement and the session (extension, command type, parallel mode,      *)
(* application name, system relations, recovery)                           *)
FastExit(mode, force, profile_enable, env) ==
  env \/ (mode = "disabled" /\ ~force /\ ~profile_enable)

(* the guard on the deny-list and on cur_classes *)
list_member_int(list, h) == \E i \in 1..Len(list) : list[i] = h

AlreadyHandled_DenyOnly(tab, list, h) == query_is_deactivated(tab, h)

AlreadyHandled(tab, list, h) == query_is_deactivated(tab, h) \/ list_member_int(list, h)

(* settings of a class that is not in the knowledge base, by mode *)
IntelligentSettings_UseOn(ctx) ==
  [ctx EXCEPT !.adding_query = TRUE, !.learn_aqo = TRUE, !.use_aqo = TRUE,
              !.fspace_hash = ctx.query_hash, !.auto_tuning = TRUE,
              !.collect_stat = TRUE]

IntelligentSettings(ctx) ==
  [ctx EXCEPT !.adding_query = TRUE, !.learn_aqo = TRUE, !.use_aqo = FALSE,
              !.fspace_hash = ctx.query_hash, !.auto_tuning = TRUE,
              !.collect_stat = TRUE]

ForcedSettings(ctx) ==
  [ctx EXCEPT !.adding_query = FALSE, !.learn_aqo = TRUE, !.use_aqo = TRUE,
              !.auto_tuning = FALSE, !.fspace_hash = 0, !.collect_stat = FALSE]

ControlledSettings_UseOn(ctx) ==
  [ctx EXCEPT !.adding_query = FALSE, !.learn_aqo = FALSE, !.use_aqo = TRUE,
              !.auto_tuning = FALSE, !.collect_stat = FALSE]

ControlledSettings(ctx) ==
  [ctx EXCEPT !.adding_query = FALSE, !.learn_aqo = FALSE, !.use_aqo = FALSE,
              !.auto_tuning = FALSE, !.collect_stat = FALSE]

LearnSettings_AutoTuning(ctx) ==
  [ctx EXCEPT !.adding_query = TRUE, !.learn_aqo = TRUE, !.use_aqo = TRUE,
              !.fspace_hash = ctx.query_hash, !.auto_tuning = TRUE,
              !.collect_stat = TRUE]

LearnSettings(ctx) ==
  [ctx EXCEPT !.adding_query = TRUE, !.learn_aqo = TRUE, !.use_aqo = TRUE,
              !.fspace_hash = ctx.query_hash, !.auto_tuning = FALSE,
              !.collect_stat = TRUE]

NewClassSettings(ctx, mode) ==
  CASE mode = "intelligent" -> IntelligentSettings(ctx)
    [] mode = "forced" -> ForcedSettings(ctx)
    [] mode \in {"controlled", "frozen"} -> ControlledSettings(ctx)
    [] mode = "learn" -> LearnSettings(ctx)
    [] OTHER -> ctx

(* settings loaded from the row of a stored class *)
StoredClassSettings(ctx, row) ==
  [ctx EXCEPT !.adding_query = FALSE, !.learn_aqo = row.learn_aqo,
              !.use_aqo = row.use_aqo, !.fspace_hash = row.fspace_hash,
              !.auto_tuning = row.auto_tuning, !.collect_stat = row.auto_tuning]

(* "Deactivate query if no one reason exists for usage of an AQO machinery" *)
ShouldDeactivate_ForceOn(ctx, force) ==
  ~ctx.learn_aqo /\ ~ctx.use_aqo /\ ~ctx.auto_tuning /\ force

ShouldDeactivate(ctx, force) ==
  ~ctx.learn_aqo /\ ~ctx.use_aqo /\ ~ctx.auto_tuning /\ ~force

(* preference changes of a stored class, based on the mode *)
FrozenOverride_KeepLearn(ctx) ==
  [ctx EXCEPT !.auto_tuning = FALSE, !.collect_stat = FALSE]

FrozenOverride(ctx) ==
  [ctx EXCEPT !.learn_aqo = FALSE, !.auto_tuning = FALSE, !.collect_stat = FALSE]

LearnOverride_KeepFspace(ctx) ==
  [ctx EXCEPT !.collect_stat = TRUE]

LearnOverride(ctx) ==
  [ctx EXCEPT !.collect_stat = TRUE, !.fspace_hash = ctx.query_hash]

ModeOverride(ctx, mode) ==
  CASE mode = "frozen" -> FrozenOverride(ctx)
    [] mode = "learn" -> LearnOverride(ctx)
    [] OTHER -> ctx

(* the test at ignore_query_settings *)
NeedRegistration_AddingOnly(stored, ctx, force) ==
  ~stored /\ ctx.adding_query

NeedRegistration_LearnOn(stored, ctx, force) ==
  ~stored /\ (ctx.learn_aqo \/ force)

NeedRegistration(stored, ctx, force) ==
  ~stored /\ (ctx.adding_query \/ force)

(* if (force_collect_stat) ... *)
ForceCollect(ctx, force) ==
  IF force THEN [ctx EXCEPT !.collect_stat = TRUE, !.fspace_hash = ctx.query_hash]
  ELSE ctx

(* if (aqo_profile_classes > 0 && aqo_profile_enable) planning_time = 0 *)
Profiling(profile_classes, profile_enable) == profile_classes > 0 /\ profile_enable

ProfileAdjust(ctx, profiling) ==
  IF profiling THEN [ctx EXCEPT !.planning_time = 0] ELSE ctx

(* the tail of aqo_planner, from the force_collect_stat test on *)
FinishSettings(ctx, force, profiling) == ProfileAdjust(ForceCollect(ctx, force), profiling)

(* ------------------------ cardinality hooks ---------------------------- *)
(* the nodes of a statement: a base relation, a join and the grouped relation *)
Rels == {"base", "join", "grouped"}

(* predicted_cardinality of a node without a prediction *)
NoOverride == -1

Unvisited == [rows |-> 0, predicted_cardinality |-> NoOverride, fss_hash |-> 0]

NoPpi == [predicted_ppi_rows |-> NoOverride, fss_ppi_hash |-> 0]

(* answers of predict_for_relation: negative values are refusals *)
OracleValues == {-2, -1, 0, 3}

(* the value of the default (standard or previous-hook) estimator *)
DefaultEstimate(hook) ==
  CASE hook = "set_baserel_rows_estimate" -> 10
    [] hook = "get_parameterized_baserel_size" -> 11
    [] hook = "set_joinrel_size_estimates" -> 12
    [] hook = "get_parameterized_joinrel_size" -> 13
    [] OTHER -> 14

(* the feature subspace hash predict_for_relation computes for the clauses *)
(* and relids of a node                                                    *)
FssOf(rel, parameterized) ==
  CASE rel = "base" /\ ~parameterized -> 21
    [] rel = "base" /\ parameterized -> 22
    [] rel = "join" /\ ~parameterized -> 23
    [] OTHER -> 24

get_grouped_exprs_hash(child_fss, group_exprs) == 100 * group_exprs + child_fss

(* "If predict_for_relation returns non-negative value, then hooks assume  *)
(* it to be true cardinality for given relation"                           *)
PredictionAccepted_Sentinel(predicted) == predicted >= -1

PredictionAccepted(predicted) == predicted >= 0

(* the two tests before the call of predict_for_relation *)
UsesOracle_Learn(ctx) == ~IsQueryDisabled(ctx) /\ (ctx.use_aqo \/ ctx.learn_aqo)

UsesOracle(ctx) == ~IsQueryDisabled(ctx) /\ ctx.use_aqo

ComputesSelectivities_UseOnly(ctx) == ~IsQueryDisabled(ctx) /\ ctx.use_aqo

ComputesSelectivities(ctx) == ~IsQueryDisabled(ctx) /\ (ctx.use_aqo \/ ctx.learn_aqo)

(* what a hook call did: the predict_for_relation and load_fss calls, the  *)
(* prediction it obtained (asked), the default estimator calls, the result; *)
(* for ppi_hook: whether it directly follows a parameterized size estimate  *)
(* (paired), and then what that estimate asked and obtained; for the group  *)
(* hook: its arguments, the child whose signature it derived and the rows   *)
(* and exp(target) load_fss reported                                        *)
NoCall ==
  [hook |-> "none", rel |-> "none", oracle_calls |-> 0, load_calls |-> 0,
   asked |-> FALSE, prediction |-> 0, default_calls |-> 0, default_value |-> 0,
   adopted |-> FALSE, result |-> 0, paired |-> FALSE,
   child |-> "none", pgset |-> FALSE, group_exprs |-> 0,
   stored_rows |-> 0, stored_exp |-> 0]

DefaultCall(hook, rel, oracle_calls, load_calls, asked, prediction) ==
  [NoCall EXCEPT !.hook = hook, !.rel = rel, !.oracle_calls = oracle_calls,
                 !.load_calls = load_calls, !.asked = asked,
                 !.prediction = prediction, !.default_calls = 1,
                 !.default_value = DefaultEstimate(hook),
                 !.result = DefaultEstimate(hook)]

AdoptedCall(hook, rel, oracle_calls, load_calls, prediction) ==
  [NoCall EXCEPT !.hook = hook, !.rel = rel, !.oracle_calls = oracle_calls,
                 !.load_calls = load_calls, !.asked = TRUE,
                 !.prediction = prediction, !.adopted = TRUE,
                 !.result = prediction]

(* the arguments of a call of the group hook and what load_fss reported to it *)
GroupCall(call, child, pgset, group_exprs, load) ==
  [call EXCEPT !.pgset = pgset, !.group_exprs = group_exprs,
               !.child = IF call.asked THEN child ELSE "none",
               !.stored_rows = IF call.asked /\ load.found THEN load.rows ELSE 0,
               !.stored_exp = IF call.asked /\ load.found THEN load.exp_target ELSE 0]

(* the node after aqo_set_baserel_rows_estimate / aqo_set_joinrel_size_estimates *)
SetRowsEstimate(ctx, node, hook, fss, predicted) ==
  IF ~UsesOracle(ctx)
  THEN [node EXCEPT !.predicted_cardinality = NoOverride, !.rows = DefaultEstimate(hook)]
  ELSE IF PredictionAccepted(predicted)
  THEN [node EXCEPT !.fss_hash = fss, !.rows = predicted, !.predicted_cardinality = predicted]
  ELSE [node EXCEPT !.fss_hash = fss, !.predicted_cardinality = NoOverride,
                    !.rows = DefaultEstimate(hook)]

(* what a hook of the predict_for_relation pattern did *)
EstimateCall(ctx, hook, rel, predicted) ==
  IF ~UsesOracle(ctx) THEN DefaultCall(hook, rel, 0, 0, FALSE, 0)
  ELSE IF PredictionAccepted(predicted) THEN AdoptedCall(hook, rel, 1, 0, predicted)
  ELSE DefaultCall(hook, rel, 1, 0, TRUE, predicted)

HookEnabled(b) == pc[b] = "planning" /\ ncalls[b] < MaxHookCalls

HookFrame(b) ==
  /\ ncalls' = [ncalls EXCEPT ![b] = @ + 1]
  /\ UNCHANGED <<aqo_queries, aqo_query_texts, locks, pc, query_context, sessionvars, nestvars, loc, cls>>

aqo_set_baserel_rows_estimate(b, predicted) ==
  LET ctx == query_context[b]
      hook == "set_baserel_rows_estimate"
  IN
  /\ HookEnabled(b)
  /\ rels' = [rels EXCEPT ![b]["base"] =
                SetRowsEstimate(ctx, @, hook, FssOf("base", FALSE), predicted)]
  /\ last' = [last EXCEPT ![b] = EstimateCall(ctx, hook, "base", predicted)]
  /\ HookFrame(b)
  /\ UNCHANGED <<selectivity_cache, staged, ppi>>

aqo_set_joinrel_size_estimates(b, predicted) ==
  LET ctx == query_context[b]
      hook == "set_joinrel_size_estimates"
  IN
  /\ HookEnabled(b)
  /\ rels' = [rels EXCEPT ![b]["join"] =
                SetRowsEstimate(ctx, @, hook, FssOf("join", FALSE), predicted)]
  /\ last' = [last EXCEPT ![b] = EstimateCall(ctx, hook, "join", predicted)]
  /\ HookFrame(b)
  /\ UNCHANGED <<selectivity_cache, staged, ppi>>

(* the globals predicted_ppi_rows and fss_ppi_hash after a parameterized hook *)
StageParam(ctx, old, fss, predicted) ==
  IF UsesOracle(ctx) THEN [predicted_ppi_rows |-> predicted, fss_ppi_hash |-> fss] ELSE old

(* the clauses of the parameterized base relation (parameterization clauses *)
(* first), as clause hashes, and the selectivity of each                    *)
ParamClauses == <<31, 32>>

Selectivity(clause_hash) == clause_hash - 30

(* cache_selectivity: one entry per clause hash, relation index and relation oid *)
cache_selectivity(cache, clause_hash, relid, global_relid, s) ==
  {e \in cache : ~(e.clause_hash = clause_hash /\ e.relid = relid
                   /\ e.global_relid = global_relid)}
  \cup {[clause_hash |-> clause_hash, relid |-> relid, global_relid |-> global_relid,
         selectivity |-> s]}

RECURSIVE CacheClauses(_, _, _)
CacheClauses(cache, clauses, i) ==
  IF i > Len(clauses) THEN cache
  ELSE CacheClauses(cache_selectivity(cache, clauses[i], 1, 1, Selectivity(clauses[i])),
                    clauses, i + 1)

aqo_get_parameterized_baserel_size(b, predicted) ==
  LET ctx == query_context[b]
      hook == "get_parameterized_baserel_size"
  IN
  /\ HookEnabled(b)
  /\ selectivity_cache' =
       [selectivity_cache EXCEPT ![b] =
          IF ComputesSelectivities(ctx) THEN CacheClauses(@, ParamClauses, 1) ELSE @]
  /\ staged' = [staged EXCEPT ![b] = StageParam(ctx, @, FssOf("base", TRUE), predicted)]
  /\ last' = [last EXCEPT ![b] = EstimateCall(ctx, hook, "base", predicted)]
  /\ HookFrame(b)
  /\ UNCHANGED <<rels, ppi>>

aqo_get_parameterized_joinrel_size(b, predicted) ==
  LET ctx == query_context[b]
      hook == "get_parameterized_joinrel_size"
  IN
  /\ HookEnabled(b)
  /\ staged' = [staged EXCEPT ![b] = StageParam(ctx, @, FssOf("join", TRUE), predicted)]
  /\ last' = [last EXCEPT ![b] = EstimateCall(ctx, hook, "join", predicted)]
  /\ HookFrame(b)
  /\ UNCHANGED <<rels, ppi, selectivity_cache>>

(* the hooks whose result ppi_hook is meant to pick up *)
ParamHooks == {"get_parameterized_baserel_size", "get_parameterized_joinrel_size"}

ppi_hook(b) ==
  /\ HookEnabled(b)
  /\ ppi' = [ppi EXCEPT ![b] = IF IsQueryDisabled(query_context[b]) THEN @ ELSE staged[b]]
  /\ last' = [last EXCEPT ![b] =
                IF last[b].hook \in ParamHooks
                THEN [NoCall EXCEPT !.hook = "ppi_hook", !.paired = TRUE,
                                    !.rel = last[b].rel, !.asked = last[b].asked,
                                    !.prediction = last[b].prediction]
                ELSE [NoCall EXCEPT !.hook = "ppi_hook"]]
  /\ HookFrame(b)
  /\ UNCHANGED <<rels, staged, selectivity_cache>>

(* load_fss for the grouped signature: no row, or the row count of the     *)
(* stored matrix and the group count exp(target) of its first row          *)
LoadResults ==
  {[found |-> FALSE, rows |-> 0, exp_target |-> 0],
   [found |-> TRUE, rows |-> 1, exp_target |-> 37],
   [found |-> TRUE, rows |-> 1, exp_target |-> 0],
   [found |-> TRUE, rows |-> 2, exp_target |-> 37],
   [found |-> TRUE, rows |-> 2, exp_target |-> 0]}

(* predict_num_groups: the child's signature, the oracle calls made for it *)
ChildHasPrediction(node) == node.predicted_cardinality > 0

ChildFss(child, node) ==
  IF ChildHasPrediction(node) THEN node.fss_hash ELSE FssOf(child, FALSE)

(* predict_num_groups: the nodes after the child's signature is derived;   *)
(* predict_for_relation stores it in the local child_fss, the child node   *)
(* (subpath->parent) is only read                                          *)
DeriveChildFss_OntoNode(nodes, child) == [nodes EXCEPT ![child] = Unvisited]

DeriveChildFss(nodes, child) == nodes

(* predict_num_groups: the prediction, -1 for a refusal (assertions off) *)
predict_num_groups(load) ==
  IF ~load.found THEN -1
  ELSE IF load.exp_target <= 0 THEN -1 ELSE load.exp_target

(* the shapes the group hook does not support *)
GroupingRefused_NoPgset(ctx, pgset, group_exprs) == ~ctx.use_aqo \/ group_exprs = 0

GroupingRefused(ctx, pgset, group_exprs) == ~ctx.use_aqo \/ pgset \/ group_exprs = 0

aqo_estimate_num_groups_hook(b, child, pgset, group_exprs, load) ==
  LET ctx == query_context[b]
      hook == "estimate_num_groups"
      node == rels[b][child]
      ocalls == IF ChildHasPrediction(node) THEN 0 ELSE 1
      fss == get_grouped_exprs_hash(ChildFss(child, node), group_exprs)
      predicted == predict_num_groups(load)
  IN
  /\ HookEnabled(b)
  /\ IF GroupingRefused(ctx, pgset, group_exprs)
     THEN /\ rels' = rels
          /\ last' = [last EXCEPT ![b] =
                        GroupCall(DefaultCall(hook, "grouped", 0, 0, FALSE, 0),
                                  child, pgset, group_exprs, load)]
     ELSE IF predicted > 0
     THEN /\ rels' = [rels EXCEPT ![b] =
                        [DeriveChildFss(@, child) EXCEPT !["grouped"] =
                           [predicted_cardinality |-> predicted, rows |-> predicted,
                            fss_hash |-> fss]]]
          /\ last' = [last EXCEPT ![b] =
                        GroupCall(AdoptedCall(hook, "grouped", ocalls, 1, predicted),
                                  child, pgset, group_exprs, load)]
     ELSE /\ rels' = [rels EXCEPT ![b] =
                        [DeriveChildFss(@, child) EXCEPT
                           !["grouped"].predicted_cardinality = NoOverride]]
          /\ last' = [last EXCEPT ![b] =
                        GroupCall(DefaultCall(hook, "grouped", ocalls, 1, TRUE, predicted),
                                  child, pgset, group_exprs, load)]
  /\ HookFrame(b)
  /\ UNCHANGED <<selectivity_cache, staged, ppi>>

(* ------------------------- aqo_planner, step by step ------------------- *)
NoLoc ==
  [query_is_stored |-> FALSE, force_collect_stat |-> FALSE, has_text |-> FALSE,
   profiling |-> FALSE, found |-> FALSE]

NoCls ==
  [outcome |-> "none", aqo_mode |-> "none", force_collect_stat |-> FALSE,
   query_is_stored |-> FALSE, absent |-> FALSE, loaded |-> <<>>, find_calls |-> 0,
   lock_acquires |-> 0, update_calls |-> 0, inserted |-> FALSE, has_text |-> FALSE,
   text_calls |-> 0, was_member |-> FALSE, was_deactivated |-> FALSE,
   appended |-> FALSE, cache_cleared |-> FALSE, engine_off |-> FALSE,
   profile_enable |-> FALSE]

(* query_context after the settings of the class are determined (the code  *)
(* between the append to cur_classes and the label ignore_query_settings)  *)
ResolveSettings(ctx, mode, stored, row) ==
  IF mode = "disabled" THEN disable_aqo_for_query(ctx)
  ELSE IF stored THEN ModeOverride(StoredClassSettings(ctx, row), mode)
  ELSE NewClassSettings(ctx, mode)

(* aqo_planner from its entry to the label ignore_query_settings, and to   *)
(* its end when no class row has to be added.  h is get_query_hash of the  *)
(* statement, text is query_string != NULL                                 *)
aqo_planner(b, h, mode, force, profile_enable, profile_classes, env, text) ==
  LET ctx0    == query_context[b]
      fast    == FastExit(mode, force, profile_enable, env)
      off     == env \/ (mode = "disabled" /\ ~force)
      ctx1    == [ctx0 EXCEPT !.query_hash = h]
      bypass  == ~fast /\ AlreadyHandled(deactivated_queries[b], cur_classes[b], h)
      classed == ~fast /\ ~bypass
      lookup  == classed /\ mode # "disabled"
      stored  == lookup /\ find_query_stored(aqo_queries, h)
      row     == IF stored THEN find_query_row(aqo_queries, h)
                 ELSE Row(h, 0, FALSE, FALSE, FALSE)
      ctx2    == ResolveSettings(ctx1, mode, stored, row)
      deact   == stored /\ ShouldDeactivate(StoredClassSettings(ctx1, row), force)
      err     == classed /\ mode \notin Modes
      reg     == classed /\ ~err /\ NeedRegistration(stored, ctx2, force)
      prof    == Profiling(profile_classes, profile_enable)
      newctx  == IF fast THEN disable_aqo_for_query(ctx0)
                 ELSE IF bypass THEN disable_aqo_for_query(ctx1)
                 ELSE IF reg \/ err THEN ctx2
                 ELSE FinishSettings(ctx2, force, prof)
      newcur  == IF classed THEN Append(cur_classes[b], h) ELSE cur_classes[b]
      newtab  == IF deact THEN add_deactivated_query(deactivated_queries[b], h)
                 ELSE deactivated_queries[b]
      newsel  == IF fast THEN selectivity_cache[b] ELSE {}
  IN
  /\ query_context' = [query_context EXCEPT ![b] = newctx]
  /\ cur_classes' = [cur_classes EXCEPT ![b] = newcur]
  /\ deactivated_queries' = [deactivated_queries EXCEPT ![b] = newtab]
  /\ selectivity_cache' = [selectivity_cache EXCEPT ![b] = newsel]
  /\ pc' = [pc EXCEPT ![b] = IF err THEN "failed" ELSE IF reg THEN "acquire"
                              ELSE "planning"]
  /\ loc' = [loc EXCEPT ![b] =
               IF reg THEN [query_is_stored |-> stored, force_collect_stat |-> force,
                            has_text |-> text, profiling |-> prof, found |-> FALSE]
               ELSE NoLoc]
  /\ controlled_new' =
       [controlled_new EXCEPT ![b] =
          IF classed /\ mode = "controlled" /\ ~stored THEN @ \cup {h} ELSE @]
  /\ cls' = [cls EXCEPT ![b] =
               [NoCls EXCEPT
                  !.outcome = IF fast THEN "fastexit" ELSE IF bypass THEN "bypass"
                              ELSE IF err THEN "error" ELSE "classified",
                  !.aqo_mode = IF classed THEN mode ELSE "none",
                  !.force_collect_stat = classed /\ force,
                  !.query_is_stored = stored,
                  !.absent = classed /\ ~find_query_stored(aqo_queries, h),
                  !.loaded = IF stored THEN <<row>> ELSE <<>>,
                  !.find_calls = IF lookup THEN 1 ELSE 0,
                  !.has_text = reg /\ text,
                  !.was_member = list_member_int(cur_classes[b], h),
                  !.was_deactivated = query_is_deactivated(deactivated_queries[b], h),
                  !.appended = (newcur # cur_classes[b]),
                  !.cache_cleared = ~fast,
                  !.engine_off = off,
                  !.profile_enable = off /\ profile_enable]]
  /\ UNCHANGED <<aqo_queries, aqo_query_texts, locks, hookvars>>

(* the planner hook is called for a top-level statement *)
PlannerEnter(b, h, mode, force, profile_enable, profile_classes, env, text) ==
  /\ pc[b] = "idle"
  /\ aqo_planner(b, h, mode, force, profile_enable, profile_classes, env, text)
  /\ UNCHANGED nestvars

(* what an aqo_planner call keeps in the global query_context while it is  *)
(* suspended in call_default_planner                                       *)
NoResume == [valid |-> FALSE, query_context |-> InitContext]

(* the planner hook is called again while a statement is being planned     *)
(* (the planner plans another statement from inside call_default_planner): *)
(* the call runs on the same global query_context                          *)
NestedPlannerEnter(b, h, mode, force, profile_enable, profile_classes, env, text) ==
  /\ pc[b] = "planning"
  /\ Len(outer[b]) < MaxNesting
  /\ aqo_planner(b, h, mode, force, profile_enable, profile_classes, env, text)
  /\ outer' = [outer EXCEPT ![b] = <<query_context[b]>> \o @]
  /\ resumed' = [resumed EXCEPT ![b] = NoResume]

(* LockAcquire(&tag, ExclusiveLock, false, false): waits for the lock of the class *)
LockFree_Always(h) == TRUE

LockFree(h) == locks[h] = 0

LockAcquire(b) ==
  /\ pc[b] = "acquire"
  /\ LockFree(query_context[b].query_hash)
  /\ locks' = [locks EXCEPT ![query_context[b].query_hash] = b]
  /\ pc' = [pc EXCEPT ![b] = "upd_find"]
  /\ cls' = [cls EXCEPT ![b].lock_acquires = @ + 1]
  /\ UNCHANGED <<aqo_queries, aqo_query_texts, query_context, sessionvars, nestvars, selectivity_cache, loc, hookvars>>

(* update_query, the search for the row of the class *)
UpdateQueryFind(b) ==
  /\ pc[b] = "upd_find"
  /\ loc' = [loc EXCEPT ![b].found = find_query_stored(aqo_queries, query_context[b].query_hash)]
  /\ pc' = [pc EXCEPT ![b] = "upd_write"]
  /\ UNCHANGED <<aqo_queries, aqo_query_texts, locks, query_context, sessionvars, nestvars, selectivity_cache, cls, hookvars>>

(* update_query, the insertion of the row *)
UpdateQueryWrite(b) ==
  LET ctx == query_context[b]
      kb  == update_query(aqo_queries, loc[b].found, ctx.query_hash, ctx.fspace_hash,
                          ctx.learn_aqo, ctx.use_aqo, ctx.auto_tuning)
  IN
  /\ pc[b] = "upd_write"
  /\ aqo_queries' = kb
  /\ pc' = [pc EXCEPT ![b] = "add_text"]
  /\ cls' = [cls EXCEPT ![b].update_calls = @ + 1, ![b].inserted = (kb # aqo_queries)]
  /\ UNCHANGED <<aqo_query_texts, locks, query_context, sessionvars, nestvars, selectivity_cache, loc, hookvars>>

(* if (query_string != NULL) add_query_text(...) *)
AddQueryText(b) ==
  /\ pc[b] = "add_text"
  /\ aqo_query_texts' =
       IF loc[b].has_text THEN add_query_text(aqo_query_texts, query_context[b].query_hash)
       ELSE aqo_query_texts
  /\ pc' = [pc EXCEPT ![b] = "release"]
  /\ cls' = [cls EXCEPT ![b].text_calls = IF loc[b].has_text THEN @ + 1 ELSE @]
  /\ UNCHANGED <<aqo_queries, locks, query_context, sessionvars, nestvars, selectivity_cache, loc, hookvars>>

(* LockRelease and the tail of aqo_planner *)
LockRelease(b) ==
  /\ pc[b] = "release"
  /\ locks' = [locks EXCEPT ![query_context[b].query_hash] = 0]
  /\ query_context' =
       [query_context EXCEPT ![b] = FinishSettings(@, loc[b].force_collect_stat, loc[b].profiling)]
  /\ pc' = [pc EXCEPT ![b] = "planning"]
  /\ loc' = [loc EXCEPT ![b] = NoLoc]
  /\ UNCHANGED <<aqo_queries, aqo_query_texts, sessionvars, nestvars,
                 selectivity_cache, cls, hookvars>>

(* elog(ERROR): planning of the statement is aborted, control returns to   *)
(* the top level of the backend                                            *)
PlannerAbort(b) ==
  /\ pc[b] = "failed"
  /\ pc' = [pc EXCEPT ![b] = "idle"]
  /\ cls' = [cls EXCEPT ![b] = NoCls]
  /\ outer' = [outer EXCEPT ![b] = <<>>]
  /\ resumed' = [resumed EXCEPT ![b] = NoResume]
  /\ UNCHANGED <<aqo_queries, aqo_query_texts, locks, query_context, sessionvars,
                 selectivity_cache, loc, hookvars>>

(* call_default_planner returns: the statement is planned *)
PlannerReturn(b) ==
  /\ pc[b] = "planning"
  /\ outer[b] = <<>>
  /\ pc' = [pc EXCEPT ![b] = "idle"]
  /\ cls' = [cls EXCEPT ![b] = NoCls]
  /\ rels' = [rels EXCEPT ![b] = [r \in Rels |-> Unvisited]]
  /\ ppi' = [ppi EXCEPT ![b] = NoPpi]
  /\ last' = [last EXCEPT ![b] = NoCall]
  /\ ncalls' = [ncalls EXCEPT ![b] = 0]
  /\ resumed' = [resumed EXCEPT ![b] = NoResume]
  /\ UNCHANGED <<aqo_queries, aqo_query_texts, locks, query_context, sessionvars, outer,
                 selectivity_cache, loc, staged>>

(* call_default_planner of a nested call returns into the planning of the  *)
(* suspended call, which goes on with the global query_context as it is    *)
NestedPlannerReturn(b) ==
  /\ pc[b] = "planning"
  /\ outer[b] # <<>>
  /\ outer' = [outer EXCEPT ![b] = Tail(@)]
  /\ resumed' = [resumed EXCEPT ![b] = [valid |-> TRUE, query_context |-> Head(outer[b])]]
  /\ cls' = [cls EXCEPT ![b] = NoCls]
  /\ UNCHANGED <<aqo_queries, aqo_query_texts, locks, pc, query_context, sessionvars,
                 selectivity_cache, loc, hookvars>>

(* ------------------------------ behaviours ----------------------------- *)
vars == <<aqo_queries, aqo_query_texts, locks, pc, query_context, sessionvars, selectivity_cache, loc, cls, rels, staged, ppi, last, ncalls,
          controlled_new, outer, resumed>>

(* the class rows a knowledge base may hold for one class *)
StoredRows(h) == {Row(h, f, l, u, a) : f \in {0, h}, l \in BOOLEAN, u \in BOOLEAN, a \in BOOLEAN}

InitBackends ==
  /\ aqo_query_texts = <<>>
  /\ locks = [h \in QueryHashes |-> 0]
  /\ pc = [b \in Backends |-> "idle"]
  /\ query_context = [b \in Backends |-> InitContext]
  /\ cur_classes = [b \in Backends |-> <<>>]
  /\ deactivated_queries = [b \in Backends |-> {}]
  /\ selectivity_cache = [b \in Backends |-> {}]
  /\ loc = [b \in Backends |-> NoLoc]
  /\ cls = [b \in Backends |-> NoCls]
  /\ rels = [b \in Backends |-> [r \in Rels |-> Unvisited]]
  /\ staged = [b \in Backends |-> [predicted_ppi_rows |-> 0, fss_ppi_hash |-> 0]]
  /\ ppi = [b \in Backends |-> NoPpi]
  /\ last = [b \in Backends |-> NoCall]
  /\ ncalls = [b \in Backends |-> 0]
  /\ controlled_new = [b \in Backends |-> {}]
  /\ outer = [b \in Backends |-> <<>>]
  /\ resumed = [b \in Backends |-> NoResume]

(* one session: the knowledge base is empty or holds the row of class 1 *)
Init ==
  /\ aqo_queries \in {<<>>} \cup {<<r>> : r \in StoredRows(1)}
  /\ InitBackends

(* a statement arrives: its class, the GUCs in effect (aqo.mode,           *)
(* aqo.force_collect_stat, aqo.profile_enable, aqo.profile_classes), the   *)
(* conditions of the session (env) and whether it has a query text.  When  *)
(* env holds the planner leaves before it reads anything else, and         *)
(* aqo.profile_classes is read only when aqo.profile_enable is on, so one  *)
(* statement stands for all of them                                        *)
Statements(hashes, modes, profiles, envs, texts) ==
  {s \in [h : hashes, mode : modes, force : BOOLEAN, profile_enable : profiles,
          profile_classes : ProfileClasses, env : envs, text : texts] :
     /\ s.env => (s.mode = "disabled" /\ ~s.force /\ ~s.profile_enable /\ s.text)
     /\ ~s.profile_enable => s.profile_classes = 0}

AllStatements ==
  Statements(QueryHashes, Modes \cup {UnrecognizedMode}, BOOLEAN, BOOLEAN, BOOLEAN)

PlanStatements == Statements({1}, Modes, BOOLEAN, BOOLEAN, {TRUE})

ConcStatements == Statements(QueryHashes, RegisteringModes, {FALSE}, {FALSE}, {TRUE})

Classify(b, statements) ==
  \E s \in statements :
    PlannerEnter(b, s.h, s.mode, s.force, s.profile_enable, s.profile_classes, s.env, s.text)

Register(b) ==
  \/ LockAcquire(b)
  \/ UpdateQueryFind(b)
  \/ UpdateQueryWrite(b)
  \/ AddQueryText(b)
  \/ LockRelease(b)

Hooks(b) ==
  \/ \E v \in OracleValues : aqo_set_baserel_rows_estimate(b, v)
  \/ \E v \in OracleValues : aqo_get_parameterized_baserel_size(b, v)
  \/ \E v \in OracleValues : aqo_set_joinrel_size_estimates(b, v)
  \/ \E v \in OracleValues : aqo_get_parameterized_joinrel_size(b, v)
  \/ ppi_hook(b)
  \/ \E child \in {"base", "join"}, pgset \in BOOLEAN, group_exprs \in {0, 1},
        load \in LoadResults :
          aqo_estimate_num_groups_hook(b, child, pgset, group_exprs, load)

(* the classifier of one backend: statements of all classes, with and     *)
(* without a query text                                                    *)
Next ==
  \/ Classify(1, AllStatements)
  \/ Register(1)
  \/ PlannerReturn(1)
  \/ PlannerAbort(1)

Spec == Init /\ [][Next]_vars

(* one backend plans statements of one class: the classifier, then the     *)
(* hooks of the planning pass                                              *)
NextPlan ==
  \/ Classify(1, PlanStatements)
  \/ Register(1)
  \/ PlannerReturn(1)
  \/ Hooks(1)

SpecPlan == Init /\ [][NextPlan]_vars

(* the backends classify statements concurrently, on an empty knowledge    *)
(* base, in the modes that add new classes to it                           *)
InitConc ==
  /\ aqo_queries = <<>>
  /\ InitBackends

NextConc ==
  \E b \in Backends :
    \/ Classify(b, ConcStatements)
    \/ Register(b)
    \/ PlannerReturn(b)

SpecConc == InitConc /\ [][NextConc]_vars

(* one backend whose planner plans a second statement while the first is  *)
(* being planned                                                           *)
NestStatements == Statements(QueryHashes, {"disabled", "intelligent", "forced"}, {FALSE}, BOOLEAN, {TRUE})

NestedClassify(b, statements) ==
  \E s \in statements :
    NestedPlannerEnter(b, s.h, s.mode, s.force, s.profile_enable, s.profile_classes, s.env, s.text)

NextNest ==
  \/ Classify(1, NestStatements)
  \/ NestedClassify(1, NestStatements)
  \/ Register(1)
  \/ PlannerReturn(1)
  \/ NestedPlannerReturn(1)

SpecNest == Init /\ [][NextNest]_vars

(* ------------------------------- claims -------------------------------- *)
(* the hooks that return or write an estimate *)
EstimateHooks ==
  {"set_baserel_rows_estimate", "get_parameterized_baserel_size",
   "set_joinrel_size_estimates", "get_parameterized_joinrel_size",
   "estimate_num_groups"}

NodeHooks == {"set_baserel_rows_estimate", "set_joinrel_size_estimates"}

(* the context enables nothing: the state disable_aqo_for_query leaves *)
AllFlagsOff(ctx) ==
  /\ ~ctx.learn_aqo /\ ~ctx.use_aqo /\ ~ctx.auto_tuning /\ ~ctx.collect_stat
  /\ ~ctx.adding_query /\ ~ctx.explain_only

(* the statement being planned was classified (not bypassed) in the mode *)
ClassifiedIn(b, mode) ==
  pc[b] = "planning" /\ cls[b].outcome = "classified" /\ cls[b].aqo_mode = mode

(* C1: in the base-relation and join-relation hooks a negative answer of   *)
(* the oracle is never written to rows or predicted_cardinality of the     *)
(* node, the row count is then the default estimator's; when a prediction  *)
(* is adopted, rows and predicted_cardinality are equal and >= 0           *)
C1_NegativeNeverWritten ==
  \A b \in Backends :
    LET c == last[b]
        node == rels[b][c.rel]
    IN c.hook \in NodeHooks =>
         /\ (c.asked /\ c.prediction < 0) =>
              /\ ~c.adopted
              /\ c.default_calls = 1
              /\ node.rows = c.default_value
              /\ node.predicted_cardinality = NoOverride
         /\ c.adopted =>
              /\ c.prediction >= 0
              /\ node.rows = c.prediction
              /\ node.predicted_cardinality = node.rows
         /\ node.rows >= 0

C1_Witness ==
  /\ last[1].hook = "set_joinrel_size_estimates"
  /\ last[1].asked
  /\ last[1].prediction = -2
  /\ rels[1]["join"].rows = DefaultEstimate("set_joinrel_size_estimates")

(* C2: each call of the five estimate hooks either adopts the prediction   *)
(* as its result, or calls the default estimator exactly once and returns  *)
(* its value, never both; the default estimator is called whenever the     *)
(* query is disabled, use_aqo is false or the oracle refuses               *)
C2_AdoptOrDefaultOnce ==
  \A b \in Backends :
    LET c == last[b]
        ctx == query_context[b]
    IN c.hook \in EstimateHooks =>
         /\ \/ c.adopted /\ c.asked /\ c.default_calls = 0 /\ c.result = c.prediction
            \/ ~c.adopted /\ c.default_calls = 1 /\ c.result = c.default_value
         /\ (IsQueryDisabled(ctx) \/ ~ctx.use_aqo \/ (c.asked /\ c.prediction < 0))
              => (c.default_calls = 1 /\ ~c.adopted)
         /\ c.asked = (c.oracle_calls + c.load_calls > 0)

C2_Witness ==
  /\ last[1].hook = "get_parameterized_joinrel_size"
  /\ query_context[1].use_aqo
  /\ last[1].asked
  /\ last[1].prediction < 0
  /\ last[1].default_calls = 1

(* C3: a call of aqo_planner for a hash that is already in cur_classes     *)
(* disables the context, calls neither find_query nor update_query, takes  *)
(* no lock and does not insert the hash again: the test comes before the   *)
(* insertion, so that cur_classes holds no hash twice                      *)
C3_MemberBypasses ==
  \A b \in Backends :
    /\ cls[b].was_member =>
         /\ cls[b].outcome \in {"bypass", "fastexit"}
         /\ pc[b] = "planning"
         /\ AllFlagsOff(query_context[b])
         /\ IsQueryDisabled(query_context[b])
         /\ cls[b].find_calls = 0
         /\ cls[b].lock_acquires = 0
         /\ cls[b].update_calls = 0
         /\ cls[b].text_calls = 0
         /\ ~cls[b].appended
    /\ \A i, j \in 1..Len(cur_classes[b]) :
         cur_classes[b][i] = cur_classes[b][j] => i = j

C3_Witness ==
  /\ cls[1].outcome = "bypass"
  /\ cls[1].was_member
  /\ ~cls[1].was_deactivated
  /\ Len(cur_classes[1]) = NumHashes

(* C4: when two backends classify the same new class concurrently and     *)
(* both find it absent, one row is inserted and the backend that did not   *)
(* insert it ends with the flags stored in the row                         *)
C4_LoserAdoptsStoredFlags ==
  \A b1, b2 \in Backends :
    LET h == query_context[b1].query_hash
        row == find_query_row(aqo_queries, h)
        ctx == query_context[b2]
    IN (/\ b1 # b2
        /\ pc[b1] = "planning" /\ pc[b2] = "planning"
        /\ cls[b1].outcome = "classified" /\ cls[b2].outcome = "classified"
        /\ query_context[b2].query_hash = h
        /\ cls[b1].absent /\ cls[b2].absent
        /\ cls[b1].inserted
        /\ cls[b2].update_calls = 1 /\ ~cls[b2].inserted)
       => /\ Cardinality(RowsOf(aqo_queries, h)) = 1
          /\ ctx.learn_aqo = row.learn_aqo
          /\ ctx.use_aqo = row.use_aqo
          /\ ctx.auto_tuning = row.auto_tuning

(* C5: in intelligent mode a class that is not in the knowledge base gets  *)
(* learn_aqo, not use_aqo, auto_tuning and fspace_hash = query_hash, its   *)
(* row is in the knowledge base when planning starts, and every estimate   *)
(* hook of the planning pass returns the default estimator's value         *)
C5_IntelligentNewClass ==
  \A b \in Backends :
    LET ctx == query_context[b]
        c == last[b]
    IN (ClassifiedIn(b, "intelligent") /\ cls[b].absent) =>
         /\ ctx.learn_aqo /\ ~ctx.use_aqo /\ ctx.auto_tuning
         /\ ctx.fspace_hash = ctx.query_hash
         /\ cls[b].inserted
         /\ find_query_stored(aqo_queries, ctx.query_hash)
         /\ find_query_row(aqo_queries, ctx.query_hash) =
              Row(ctx.query_hash, ctx.query_hash, TRUE, FALSE, TRUE)
         /\ c.hook \in EstimateHooks =>
              (~c.adopted /\ c.default_calls = 1 /\ c.result = c.default_value)
         /\ \A r \in Rels : rels[b][r].predicted_cardinality = NoOverride

C5_Witness ==
  /\ ClassifiedIn(1, "intelligent")
  /\ cls[1].absent
  /\ cls[1].force_collect_stat
  /\ last[1].hook = "set_baserel_rows_estimate"
  /\ ncalls[1] = MaxHookCalls

(* C6: in forced mode a class that is not in the knowledge base gets       *)
(* learn_aqo, use_aqo, not auto_tuning and fspace_hash = 0, whatever       *)
(* force_collect_stat is; a node hook then overrides the cardinality       *)
(* exactly when the oracle answers with a value >= 0                       *)
C6_ForcedNewClass ==
  \A b \in Backends :
    LET ctx == query_context[b]
        c == last[b]
    IN (ClassifiedIn(b, "forced") /\ cls[b].absent) =>
         /\ ctx.learn_aqo /\ ctx.use_aqo /\ ~ctx.auto_tuning
         /\ ctx.fspace_hash = 0
         /\ c.hook \in NodeHooks => (c.adopted <=> (c.asked /\ c.prediction >= 0))

(* the deny-list at the end of a classification, and the classification of *)
(* a hash that is on it                                                    *)
C7_DeactivatedNow ==
  \A b \in Backends :
    LET c == cls[b] IN
    /\ (/\ c.outcome = "classified" /\ c.query_is_stored
        /\ ~c.loaded[1].learn_aqo /\ ~c.loaded[1].use_aqo /\ ~c.loaded[1].auto_tuning
        /\ ~c.force_collect_stat)
         => query_is_deactivated(deactivated_queries[b], c.loaded[1].query_hash)
    /\ c.was_deactivated =>
         /\ c.outcome \in {"bypass", "fastexit"}
         /\ pc[b] = "planning"
         /\ AllFlagsOff(query_context[b])
         /\ IsQueryDisabled(query_context[b])
         /\ c.find_calls = 0
         /\ c.update_calls = 0
         /\ ~c.appended

(* no step takes a hash off the deny-list *)
C7_DeactivatedStays ==
  \A b \in Backends : deactivated_queries[b] \subseteq deactivated_queries'[b]

(* C7: a stored class loaded with learn_aqo, use_aqo and auto_tuning all   *)
(* false while force_collect_stat is off is put on the deny-list; every    *)
(* classification of a hash on the deny-list is disabled, calls no         *)
(* find_query and does not insert into cur_classes; the deny-list only     *)
(* grows, so this holds for every later classification of the class        *)
C7_DeactivatedBypass == [](C7_DeactivatedNow) /\ [][C7_DeactivatedStays]_vars

C7_Witness ==
  /\ cls[1].outcome = "bypass"
  /\ cls[1].was_deactivated
  /\ query_context[1].query_hash = 1
  /\ find_query_row(aqo_queries, 1) = Row(1, 0, FALSE, FALSE, FALSE)

(* C8 as stated: in controlled mode a class that is not in the knowledge   *)
(* base gets learn_aqo, use_aqo, auto_tuning and collect_stat all false    *)
C8_ControlledAllFalse ==
  \A b \in Backends :
    LET ctx == query_context[b] IN
    (ClassifiedIn(b, "controlled") /\ cls[b].absent) =>
      (~ctx.learn_aqo /\ ~ctx.use_aqo /\ ~ctx.auto_tuning /\ ~ctx.collect_stat)

(* C8, amended: in controlled mode a class that is not in the knowledge    *)
(* base gets learn_aqo, use_aqo and auto_tuning false, and collect_stat    *)
(* true exactly when force_collect_stat is on; no estimate hook of the     *)
(* session adopts a prediction while query_context is of such a class      *)
C8_ControlledNeverPredicts ==
  \A b \in Backends :
    LET ctx == query_context[b] IN
    /\ (ClassifiedIn(b, "controlled") /\ cls[b].absent) =>
         /\ ~ctx.learn_aqo /\ ~ctx.use_aqo /\ ~ctx.auto_tuning
         /\ ctx.collect_stat = cls[b].force_collect_stat
         /\ ctx.query_hash \in controlled_new[b]
    /\ (pc[b] = "planning" /\ ctx.query_hash \in controlled_new[b]) =>
         /\ ~ctx.use_aqo
         /\ ~last[b].adopted
         /\ last[b].hook \in EstimateHooks => last[b].default_calls = 1
         /\ \A r \in Rels : rels[b][r].predicted_cardinality = NoOverride

C8_Witness ==
  /\ pc[1] = "planning"
  /\ cls[1].outcome = "bypass"
  /\ query_context[1].query_hash \in controlled_new[1]
  /\ last[1].hook = "estimate_num_groups"
  /\ ncalls[1] = MaxHookCalls

(* the classification ran update_query (and add_query_text when the        *)
(* statement has a text) once, holding the lock of the class               *)
Registered(b) ==
  /\ cls[b].lock_acquires = 1
  /\ cls[b].update_calls = 1
  /\ cls[b].text_calls = (IF cls[b].has_text THEN 1 ELSE 0)

NotRegistered(b) ==
  /\ cls[b].lock_acquires = 0
  /\ cls[b].update_calls = 0
  /\ cls[b].text_calls = 0
  /\ ~cls[b].inserted

(* C9 as stated: a classification registers the class if and only if the   *)
(* class is absent from the knowledge base and learn_aqo is set for it or  *)
(* force_collect_stat is on                                                *)
C9_UpsertIffNewAndLearning ==
  \A b \in Backends :
    (pc[b] = "planning" /\ cls[b].outcome = "classified") =>
      (Registered(b) <=>
         (cls[b].absent /\ (query_context[b].learn_aqo \/ cls[b].force_collect_stat)))

(* C9, amended: a classification registers the class if and only if it     *)
(* found no row of the class (the class is absent, or the mode is disabled *)
(* and no lookup is made) and the mode adds new classes (intelligent,      *)
(* learn) or force_collect_stat is on; otherwise it takes no lock and      *)
(* calls neither update_query nor add_query_text; update_query and         *)
(* add_query_text run while the backend holds the lock of the class        *)
C9_UpsertIffAddingOrForced ==
  \A b \in Backends :
    LET c == cls[b] IN
    /\ (pc[b] = "planning" /\ c.outcome = "classified") =>
         /\ Registered(b) <=>
              /\ c.absent \/ c.aqo_mode = "disabled"
              /\ c.aqo_mode \in RegisteringModes \/ c.force_collect_stat
         /\ Registered(b) \/ NotRegistered(b)
         /\ c.inserted => c.absent
    /\ (pc[b] = "planning" /\ c.outcome # "classified") => NotRegistered(b)
    /\ pc[b] \in {"upd_find", "upd_write", "add_text", "release"} =>
         locks[query_context[b].query_hash] = b

C9_Witness ==
  /\ ClassifiedIn(1, "controlled")
  /\ cls[1].absent
  /\ cls[1].force_collect_stat
  /\ Registered(1)
  /\ cls[1].inserted
  /\ cls[1].text_calls = 0

(* C10 as stated: in frozen mode a stored class ends with learn_aqo,       *)
(* auto_tuning and collect_stat false and use_aqo as stored, whatever      *)
(* force_collect_stat is; a new class gets all four flags false            *)
C10_FrozenCollectOff ==
  \A b \in Backends :
    LET ctx == query_context[b] IN
    ClassifiedIn(b, "frozen") =>
      /\ ~ctx.learn_aqo /\ ~ctx.auto_tuning /\ ~ctx.collect_stat
      /\ ctx.use_aqo = (cls[b].query_is_stored /\ cls[b].loaded[1].use_aqo)

(* C10, amended: in frozen mode a stored class ends with learn_aqo and     *)
(* auto_tuning false and use_aqo as stored, a new class with learn_aqo,    *)
(* use_aqo and auto_tuning false; in both cases collect_stat is false when *)
(* force_collect_stat is off and true when it is on                        *)
C10_FrozenSettings ==
  \A b \in Backends :
    LET ctx == query_context[b] IN
    ClassifiedIn(b, "frozen") =>
      /\ ~ctx.learn_aqo /\ ~ctx.auto_tuning
      /\ ctx.collect_stat = cls[b].force_collect_stat
      /\ cls[b].query_is_stored => ctx.use_aqo = cls[b].loaded[1].use_aqo
      /\ ~cls[b].query_is_stored => ~ctx.use_aqo

C10_Witness ==
  /\ ClassifiedIn(1, "frozen")
  /\ cls[1].query_is_stored
  /\ cls[1].loaded[1].learn_aqo /\ cls[1].loaded[1].use_aqo /\ cls[1].loaded[1].auto_tuning
  /\ cls[1].force_collect_stat
  /\ query_context[1].use_aqo

(* C11: in learn mode the context of a classified statement has           *)
(* collect_stat set and fspace_hash = query_hash, for a new class and for  *)
(* a stored class whatever its row holds; a new class has learn_aqo and    *)
(* use_aqo set and auto_tuning off, a stored class has the learn_aqo,      *)
(* use_aqo and auto_tuning of its row                                      *)
C11_LearnSettings ==
  \A b \in Backends :
    LET ctx == query_context[b]
        c == cls[b]
    IN ClassifiedIn(b, "learn") =>
         /\ ctx.collect_stat
         /\ ctx.fspace_hash = ctx.query_hash
         /\ ~c.query_is_stored =>
              (ctx.learn_aqo /\ ctx.use_aqo /\ ~ctx.auto_tuning)
         /\ c.query_is_stored =>
              /\ ctx.learn_aqo = c.loaded[1].learn_aqo
              /\ ctx.use_aqo = c.loaded[1].use_aqo
              /\ ctx.auto_tuning = c.loaded[1].auto_tuning

C11_Witness ==
  /\ ClassifiedIn(1, "learn")
  /\ cls[1].query_is_stored
  /\ cls[1].loaded[1].fspace_hash = 0
  /\ ~cls[1].loaded[1].learn_aqo /\ cls[1].loaded[1].auto_tuning
  /\ ~cls[1].force_collect_stat
  /\ query_context[1].fspace_hash = 1

(* what a classification that takes the fast exit leaves alone *)
FastExitFrame(b) ==
  /\ AllFlagsOff(query_context'[b])
  /\ pc'[b] = "planning"
  /\ cur_classes' = cur_classes
  /\ deactivated_queries' = deactivated_queries
  /\ selectivity_cache' = selectivity_cache
  /\ aqo_queries' = aqo_queries
  /\ aqo_query_texts' = aqo_query_texts
  /\ locks' = locks

(* what the observation of a call shows when nothing but the context was touched *)
NothingTouched(b) ==
  /\ AllFlagsOff(query_context[b])
  /\ ~cls[b].appended
  /\ ~cls[b].cache_cleared
  /\ cls[b].find_calls = 0
  /\ NotRegistered(b)

(* C12 as stated: when a fast-exit condition holds (a condition of the     *)
(* session or statement, or the mode is disabled and force_collect_stat is *)
(* off) the classification returns all flags false and changes neither     *)
(* cur_classes, the deny-list, the selectivity cache nor the knowledge     *)
(* base, and takes no lock                                                 *)
C12_FastExitWhenOff ==
  \A b \in Backends :
    (pc[b] = "planning" /\ cls[b].engine_off) => NothingTouched(b)

(* C12, amended: the same, where the condition on the mode is: the mode is *)
(* disabled, force_collect_stat is off and aqo_profile_enable is off       *)
C12_FastExitLeavesState ==
  /\ [](\A b \in Backends :
          (pc[b] = "planning" /\ cls[b].engine_off /\ ~cls[b].profile_enable) =>
             (cls[b].outcome = "fastexit" /\ NothingTouched(b)))
  /\ [][\A b \in Backends :
          (pc[b] = "idle" /\ cls'[b].outcome = "fastexit") => FastExitFrame(b)]_vars

C12_Witness ==
  /\ cls[1].outcome = "fastexit"
  /\ selectivity_cache[1] # {}
  /\ cur_classes[1] # <<>>
  /\ aqo_queries # <<>>

(* C13: every call of the base, join and group-count hooks that does not  *)
(* adopt a prediction (query disabled, use_aqo off, unsupported grouping   *)
(* shape, refusal of the oracle, no stored row) returns with               *)
(* predicted_cardinality of the node at -1                                 *)
C13_NoOverrideOnFailure ==
  \A b \in Backends :
    LET c == last[b] IN
    (c.hook \in NodeHooks \cup {"estimate_num_groups"} /\ ~c.adopted) =>
      rels[b][c.rel].predicted_cardinality = NoOverride

(* C14: when the query is not disabled and ppi_hook directly follows a     *)
(* parameterized size estimate, the values it copies onto the path info    *)
(* are the prediction and signature that estimate call produced; values    *)
(* staged earlier are never copied                                         *)
C14_PpiCopiesOwnEstimate ==
  \A b \in Backends :
    LET c == last[b] IN
    (c.hook = "ppi_hook" /\ c.paired /\ ~IsQueryDisabled(query_context[b])) =>
      IF c.asked
      THEN ppi[b] = [predicted_ppi_rows |-> c.prediction,
                     fss_ppi_hash |-> FssOf(c.rel, TRUE)]
      ELSE ppi[b] = NoPpi

(* C15: when the child of a group-count estimate carries an adopted        *)
(* prediction (predicted_cardinality >= 0) with signature S, the grouped   *)
(* signature is derived from S and predict_for_relation is not called; if  *)
(* one row is stored for the grouped signature, the hook returns           *)
(* exp(target) and writes it, with the grouped signature, onto the grouped *)
(* relation                                                                *)
C15_ChildPredictionReused ==
  \A b \in Backends :
    LET c == last[b]
        node == rels[b][c.child]
        grouped_fss == get_grouped_exprs_hash(node.fss_hash, c.group_exprs)
    IN (c.hook = "estimate_num_groups" /\ c.asked
        /\ node.predicted_cardinality >= 0) =>
         /\ c.oracle_calls = 0
         /\ (c.stored_rows = 1 /\ c.stored_exp > 0) =>
              /\ c.adopted
              /\ c.result = c.stored_exp
              /\ rels[b]["grouped"] =
                   [rows |-> c.stored_exp, predicted_cardinality |-> c.stored_exp,
                    fss_hash |-> grouped_fss]

(* a step of the backend is a call of the group hook *)
GroupHookStep(b) ==
  last'[b].hook = "estimate_num_groups" /\ ncalls'[b] = ncalls[b] + 1

(* the call of the group hook was one it does not support *)
GroupShapeRefused(b) ==
  last[b].pgset \/ last[b].group_exprs = 0 \/ ~query_context[b].use_aqo

(* C16: when grouping sets are used, the grouping-expression list is empty *)
(* or use_aqo is off, the group hook returns the default estimator's value *)
(* (called once), calls neither predict_for_relation nor load_fss and      *)
(* writes nothing onto the relations                                       *)
C16_GroupRefusesImmediately ==
  /\ [](\A b \in Backends :
          (last[b].hook = "estimate_num_groups" /\ GroupShapeRefused(b)) =>
             /\ ~last[b].asked /\ ~last[b].adopted
             /\ last[b].oracle_calls = 0
             /\ last[b].load_calls = 0
             /\ last[b].default_calls = 1
             /\ last[b].result = DefaultEstimate("estimate_num_groups"))
  /\ [][\A b \in Backends :
          (GroupHookStep(b) /\ GroupShapeRefused(b)') => rels' = rels]_vars

C16_Witness ==
  /\ last[1].hook = "estimate_num_groups"
  /\ last[1].pgset
  /\ last[1].group_exprs = 1
  /\ query_context[1].use_aqo
  /\ rels[1]["base"].predicted_cardinality = 3

(* C17: when load_fss reports more than one stored row for the grouped     *)
(* signature (assertions off), the group hook treats it as a refusal: it   *)
(* returns the default estimator's value and leaves predicted_cardinality  *)
(* of the grouped relation at -1                                           *)
C17_SeveralRowsRefused ==
  \A b \in Backends :
    LET c == last[b] IN
    (c.hook = "estimate_num_groups" /\ c.stored_rows > 1) =>
      /\ ~c.adopted
      /\ c.default_calls = 1
      /\ c.result = c.default_value
      /\ rels[b]["grouped"].predicted_cardinality = NoOverride

(* C18: a classification that ends in the error for an unrecognized mode  *)
(* leaves cur_classes, the deny-list, the selectivity cache and the        *)
(* knowledge base as they were before the call, and holds no lock          *)
C18_ErrorLeavesState ==
  \A b \in Backends :
    LET c == cls[b]
        h == query_context[b].query_hash
    IN c.outcome = "error" =>
         /\ pc[b] = "failed"
         /\ ~c.appended
         /\ ~c.cache_cleared
         /\ query_is_deactivated(deactivated_queries[b], h) = c.was_deactivated
         /\ NotRegistered(b)
         /\ \A k \in QueryHashes : locks[k] # b

(* what the claim compares: the class, the feature space and the flags    *)
Settings(ctx) ==
  <<ctx.query_hash, ctx.fspace_hash, ctx.learn_aqo, ctx.use_aqo, ctx.auto_tuning,
    ctx.collect_stat>>

(* C19: after a nested aqo_planner call returns, the query_hash, fspace    *)
(* and behaviour flags of the statement that was being planned are those   *)
(* it had before the nested call                                           *)
C19_OuterContextKept ==
  \A b \in Backends :
    resumed[b].valid => Settings(query_context[b]) = Settings(resumed[b].query_context)

(* between LockAcquire and LockRelease *)
InSection(b) == pc[b] \in {"upd_find", "upd_write", "add_text", "release"}

(* C20: at most one backend at a time is between LockAcquire and           *)
(* LockRelease for a given query_hash; between the search and the          *)
(* insertion of update_query no other backend changes the row of that      *)
(* class, and the class gets one row; a backend waiting for the lock of    *)
(* its class finds it free unless another backend is in the section for    *)
(* the same query_hash                                                     *)
C20_RegistrationSerialized ==
  /\ \A b1, b2 \in Backends :
       (b1 # b2 /\ InSection(b1) /\ InSection(b2)) =>
          query_context[b1].query_hash # query_context[b2].query_hash
  /\ \A b \in Backends :
       pc[b] = "upd_write" =>
          loc[b].found = find_query_stored(aqo_queries, query_context[b].query_hash)
  /\ \A h \in QueryHashes : Cardinality(RowsOf(aqo_queries, h)) <= 1
  /\ \A b \in Backends :
       (/\ pc[b] = "acquire"
        /\ \A b2 \in Backends \ {b} :
              ~(InSection(b2) /\ query_context[b2].query_hash = query_context[b].query_hash))
         => LockFree(query_context[b].query_hash)

C20_Witness ==
  \E b1, b2 \in Backends :
    /\ b1 # b2
    /\ pc[b1] = "upd_write" /\ pc[b2] = "acquire"
    /\ query_context[b1].query_hash = query_context[b2].query_hash

(* what intelligent mode resolves for the new class of the statement       *)
(* being planned, including the force_collect_stat adjustment              *)
IntelligentTwin(b) ==
  ForceCollect(NewClassSettings(query_context[b], "intelligent"), cls[b].force_collect_stat)

NewClassIn(b, mode) == ClassifiedIn(b, mode) /\ ~cls[b].query_is_stored

HookStep(b) == ncalls'[b] = ncalls[b] + 1

(* the last hook call was the row estimate of the node itself *)
OwnEstimate(b, n) ==
  \/ n = "base" /\ last[b].hook = "set_baserel_rows_estimate"
  \/ n = "join" /\ last[b].hook = "set_joinrel_size_estimates"
  \/ n = "grouped" /\ last[b].hook = "estimate_num_groups"

(* C22: a node that carries an adopted prediction keeps its                *)
(* predicted_cardinality, rows and fss_hash through every later hook call  *)
(* of the planning pass that is not the row estimate of that node itself:  *)
(* the join estimate of a parent, the group estimate over it, the          *)
(* parameterized size estimates and ppi_hook                               *)
C22_PredictedIsTerminal ==
  [][\A b \in Backends : \A n \in Rels :
       (/\ HookStep(b)
        /\ PredictionAccepted(rels[b][n].predicted_cardinality)
        /\ ~OwnEstimate(b, n)')
         => rels'[b][n] = rels[b][n]]_vars

C22_Witness ==
  /\ last[1].hook = "estimate_num_groups"
  /\ last[1].child = "base" /\ last[1].asked /\ last[1].oracle_calls = 1
  /\ rels[1]["base"].predicted_cardinality = 0
  /\ rels[1]["base"].fss_hash = FssOf("base", FALSE)

(* the entries a parameterized base-relation estimate writes: one for each *)
(* clause, with the relation index, the relation oid and the selectivity   *)
ParamEntries ==
  {[clause_hash |-> ParamClauses[i], relid |-> 1, global_relid |-> 1,
    selectivity |-> Selectivity(ParamClauses[i])] : i \in 1..Len(ParamClauses)}

(* a step of the backend is a call of aqo_planner *)
ClassifyStep(b) == pc[b] = "idle" /\ pc'[b] # "idle"

(* a step of the backend is a parameterized base-relation estimate made    *)
(* with use_aqo or learn_aqo set                                           *)
CachingStep(b) ==
  /\ HookStep(b)
  /\ last'[b].hook = "get_parameterized_baserel_size"
  /\ (query_context[b].use_aqo \/ query_context[b].learn_aqo)

(* C23: the selectivity cache is emptied by every classification that is   *)
(* not a fast exit and left alone by a fast exit; a parameterized          *)
(* base-relation estimate made with use_aqo or learn_aqo set adds one      *)
(* entry per clause; no other hook call and no other step changes it; so   *)
(* the cache holds the entries of the parameterized base-relation          *)
(* estimates made since the last such classification, and nothing else     *)
C23_CacheContents ==
  /\ [](\A b \in Backends :
          /\ selectivity_cache[b] \in {{}, ParamEntries}
          /\ Cardinality(ParamEntries) = Len(ParamClauses))
  /\ [][\A b \in Backends :
          /\ (ClassifyStep(b) /\ cls'[b].outcome # "fastexit") => selectivity_cache'[b] = {}
          /\ (ClassifyStep(b) /\ cls'[b].outcome = "fastexit") =>
                selectivity_cache'[b] = selectivity_cache[b]
          /\ CachingStep(b) => selectivity_cache'[b] = selectivity_cache[b] \cup ParamEntries
          /\ (~ClassifyStep(b) /\ ~CachingStep(b)) =>
                selectivity_cache'[b] = selectivity_cache[b]]_vars

C23_Witness ==
  /\ last[1].hook = "get_parameterized_baserel_size"
  /\ query_context[1].learn_aqo /\ ~query_context[1].use_aqo
  /\ selectivity_cache[1] = ParamEntries

C25_FspaceWrittenIsResolved ==
  \A b \in Backends :
    LET h == query_context[b].query_hash
    IN cls[b].inserted =>
         \A i \in RowsOf(aqo_queries, h) : aqo_queries[i].fspace_hash \in {h, 0}

(* C26: a classification that adds the class of its statement to the       *)
(* deny-list returns a context with learn_aqo, use_aqo, auto_tuning and    *)
(* collect_stat all off, in every mode                                     *)
C26_DenyListedIsInactive ==
  \A b \in Backends :
    LET ctx == query_context[b]
    IN (/\ pc[b] = "planning"
        /\ cls[b].outcome = "classified"
        /\ ~cls[b].was_deactivated
        /\ query_is_deactivated(deactivated_queries[b], ctx.query_hash))
         => (~ctx.learn_aqo /\ ~ctx.use_aqo /\ ~ctx.auto_tuning /\ ~ctx.collect_stat)

(* cur_classes after a step is cur_classes before it, or that with one     *)
(* more element at the end                                                 *)
Grows(old, new) ==
  /\ Len(new) >= Len(old)
  /\ Len(new) <= Len(old) + 1
  /\ \A i \in 1..Len(old) : new[i] = old[i]

(* C27: cur_classes holds each query_hash at most once; no step removes    *)
(* an element; an element is appended only by a call of aqo_planner, for   *)
(* the class of its statement, when that class was neither in cur_classes  *)
(* nor on the deny-list; a call for a class already in cur_classes is not  *)
(* classified again (it takes the bypass, or has left at the fast exit)    *)
(* and appends nothing                                                     *)
C27_ActiveClassesGrowOnce ==
  /\ [](\A b \in Backends : \A i, j \in 1..Len(cur_classes[b]) :
          cur_classes[b][i] = cur_classes[b][j] => i = j)
  /\ [][\A b \in Backends :
          /\ Grows(cur_classes[b], cur_classes'[b])
          /\ cur_classes'[b] # cur_classes[b] =>
               /\ ClassifyStep(b)
               /\ cur_classes'[b] = Append(cur_classes[b], query_context'[b].query_hash)
               /\ ~list_member_int(cur_classes[b], query_context'[b].query_hash)
               /\ ~query_is_deactivated(deactivated_queries[b], query_context'[b].query_hash)
          /\ (ClassifyStep(b) /\ cls'[b].was_member) =>
               /\ cls'[b].outcome \in {"bypass", "fastexit"}
               /\ cur_classes'[b] = cur_classes[b]]_vars

C27_Witness ==
  /\ Len(cur_classes[1]) = 2
  /\ cls[1].outcome = "bypass" /\ cls[1].was_member /\ ~cls[1].was_deactivated
  /\ pc[1] = "planning"

====
